---- MODULE Spec2Model ----
(***************************************************************************)
(* custom-rss: three axum handlers (isabel::rss, verde::blog_rss,          *)
(* verde::reportajes_rss) that fetch an HTML page, walk the nodes matched  *)
(* by an entry selector, normalise each entry's date and answer with an   *)
(* RSS channel (200) or with 204 No Content.                               *)
(*                                                                         *)
(* A text is a sequence of pieces: the piece " " is a run of whitespace,   *)
(* every other piece is a run of non-whitespace characters.  Adjacent      *)
(* non-whitespace pieces belong to the same word.                          *)
(***************************************************************************)
EXTENDS Integers, Sequences, FiniteSets, TLC

VARIABLES
    lazy,         \* LazyLock<Selector> statics: selector name -> "uninit" | compiled pattern
    compiles,     \* selector name -> how many times its initialiser closure ran
    served,       \* requests accepted by the router so far
    handler,      \* the handler serving the request in flight ("none" when idle)
    pc,           \* position of the handler's future
    stage,        \* pipeline stage of the step taken last
    content,      \* the fetched page (reqwest::get(..).text())
    document,     \* Html::parse_document(&content): the nodes the entry selector matches
    idx,          \* how many elements the for loop has taken from the select iterator
    local,        \* the loop body's locals (title, date, content, link)
    rss_channel,  \* the Channel under construction
    response,     \* what the client receives
    logged,       \* the message passed to error!()
    outcome,      \* what parse_content / parse_blog / parse_reportajes returned
    dialect,      \* date normaliser under test ("A" | "B2" | "none")
    input,        \* the raw date text handed to the normaliser
    result        \* what the normaliser returned

vars == <<lazy, compiles, served, handler, pc, stage, content, document, idx,
          local, rss_channel, response, logged, outcome, dialect, input, result>>

pipelineVars == <<lazy, compiles, served, handler, pc, stage, content, document,
                  idx, local, rss_channel, response, logged, outcome>>

dateVars == <<dialect, input, result>>

-----------------------------------------------------------------------------
(* Bounds *)

\* Largest entry count of a fetched page (single-request specification).
MaxEntries == 2

\* Requests one process serves in the single-request specification.
MaxRequests == 1

\* Entry count and request count of the LazyLock specification.
LazyMaxEntries == 1

LazyMaxRequests == 2

\* Decimal numerals 0..MaxSmall are the day/month numerals of the input universe.
MaxSmall == 32

\* Years of the input universe; 12024 has five digits.
Years == {2023, 2024, 12024}

Numbers == (0..MaxSmall) \cup Years

-----------------------------------------------------------------------------
(* Results (anyhow::Result<T>) and panics *)

Ok(v) == [kind |-> "ok", value |-> v, error |-> ""]

Err(msg) == [kind |-> "err", value |-> "", error |-> msg]

Panic(msg) == [kind |-> "panic", value |-> "", error |-> msg]

NumOk(n) == [kind |-> "ok", num |-> n, error |-> ""]

NumErr(msg) == [kind |-> "err", num |-> 0, error |-> msg]

-----------------------------------------------------------------------------
(* Text helpers *)

Space == " "

RECURSIVE SplitFrom(_, _, _)
SplitFrom(s, i, cur) ==
    IF i > Len(s)
    THEN IF cur = "" THEN <<>> ELSE <<cur>>
    ELSE IF s[i] = Space
         THEN IF cur = "" THEN SplitFrom(s, i + 1, "")
              ELSE <<cur>> \o SplitFrom(s, i + 1, "")
         ELSE SplitFrom(s, i + 1, cur \o s[i])

\* str::split_whitespace().collect::<Vec<&str>>()
split_whitespace(s) == SplitFrom(s, 1, "")

RECURSIVE TrimStart(_)
TrimStart(s) == IF s # <<>> /\ Head(s) = Space THEN TrimStart(Tail(s)) ELSE s

RECURSIVE TrimEnd(_)
TrimEnd(s) ==
    IF s # <<>> /\ s[Len(s)] = Space THEN TrimEnd(SubSeq(s, 1, Len(s) - 1)) ELSE s

\* str::trim()
trim(s) == TrimEnd(TrimStart(s))

RECURSIVE Flatten(_)
\* The String a text denotes.
Flatten(s) == IF s = <<>> THEN "" ELSE Head(s) \o Flatten(Tail(s))

\* Decimal numerals a numeral token may be: "3", and "03" for a single digit.
Numeral(n) == ToString(n)

ZeroPadded(n) == IF n < 10 THEN "0" \o ToString(n) ELSE ToString(n)

IsNumeral(tok) == \E n \in Numbers : tok = Numeral(n) \/ tok = ZeroPadded(n)

NumeralValue(tok) == CHOOSE n \in Numbers : tok = Numeral(n) \/ tok = ZeroPadded(n)

\* str::parse::<u32>() on a token of the universe
parse_u32(tok) ==
    IF IsNumeral(tok) THEN NumOk(NumeralValue(tok))
    ELSE NumErr("invalid digit found in string")

\* str::parse::<i32>() on a token of the universe
parse_i32(tok) ==
    IF IsNumeral(tok) THEN NumOk(NumeralValue(tok))
    ELSE NumErr("invalid digit found in string")

-----------------------------------------------------------------------------
(* chrono: NaiveDate, Europe/Madrid, RFC 2822 *)

IsLeap(y) == (y % 4 = 0 /\ y % 100 # 0) \/ y % 400 = 0

DaysInMonth(y, m) ==
    IF m = 2 THEN (IF IsLeap(y) THEN 29 ELSE 28)
    ELSE IF m \in {4, 6, 9, 11} THEN 30 ELSE 31

from_ymd_opt_lax(y, m, d) == m \in 1..12 /\ d >= 1 /\ d <= 31

\* NaiveDate::from_ymd_opt(year, month, day).is_some()
from_ymd_opt(y, m, d) == m \in 1..12 /\ d >= 1 /\ d <= DaysInMonth(y, m)

\* Days since 1970-01-01 of a proleptic Gregorian date, year >= 0.
DaysFromCivil(y, m, d) ==
    LET yy == IF m <= 2 THEN y - 1 ELSE y
        era == yy \div 400
        yoe == yy - era * 400
        mp == IF m > 2 THEN m - 3 ELSE m + 9
        doy == (153 * mp + 2) \div 5 + d - 1
        doe == yoe * 365 + yoe \div 4 - yoe \div 100 + doy
    IN era * 146097 + doe - 719468

\* 0 = Sunday .. 6 = Saturday
Weekday(y, m, d) == (DaysFromCivil(y, m, d) + 4) % 7

LastSunday(y, m) == CHOOSE d \in 25..31 : Weekday(y, m, d) = 0

\* Europe/Madrid at 12:00 local time (EU rule, in force since 1996): summer
\* time from the last Sunday of March to the last Sunday of October.
\* Noon is never in a gap or a fold, so the LocalResult is always Single.
and_local_timezone(y, m, d) ==
    LET summer == \/ (m > 3 /\ m < 10)
                  \/ (m = 3 /\ d >= LastSunday(y, 3))
                  \/ (m = 10 /\ d < LastSunday(y, 10))
    IN [kind |-> "Single", year |-> y, month |-> m, day |-> d,
        hour |-> 12, minute |-> 0, second |-> 0,
        offset |-> IF summer THEN 2 ELSE 1]

ShortWeekdays == <<"Sun", "Mon", "Tue", "Wed", "Thu", "Fri", "Sat">>

ShortMonths == <<"Jan", "Feb", "Mar", "Apr", "May", "Jun",
                 "Jul", "Aug", "Sep", "Oct", "Nov", "Dec">>

TwoDigits(n) == IF n < 10 THEN "0" \o ToString(n) ELSE ToString(n)

\* DateTime::to_rfc2822(): RFC 2822 has years 0..9999 only; outside that range
\* the formatter fails and to_rfc2822 panics on the failure.
to_rfc2822(dt) ==
    IF dt.year < 0 \/ dt.year > 9999
    THEN Panic("writing rfc2822 datetime to string should never fail")
    ELSE Ok(ShortWeekdays[Weekday(dt.year, dt.month, dt.day) + 1] \o ", "
            \o ToString(dt.day) \o " " \o ShortMonths[dt.month] \o " "
            \o TwoDigits(dt.year \div 100) \o TwoDigits(dt.year % 100) \o " "
            \o TwoDigits(dt.hour) \o ":" \o TwoDigits(dt.minute) \o ":"
            \o TwoDigits(dt.second) \o " +0" \o ToString(dt.offset) \o "00")

\* NaiveTime::from_hms_opt(12, 0, 0), NaiveDateTime::new, and_local_timezone(Madrid),
\* to_rfc2822: the tail the three normalisers share.
NoonMadrid(y, m, d) ==
    LET dt == and_local_timezone(y, m, d)
    IN IF dt.kind = "Single" THEN to_rfc2822(dt) ELSE Err("Invalid timezone")

InvalidDateMessage(y, m, d) ==
    "Unable to form date with values year = " \o ToString(y) \o ", month = "
    \o ToString(m) \o " and day = " \o ToString(d)

-----------------------------------------------------------------------------
(* Dialect A: isabel::parse_date *)

MonthNamesA == <<"enero", "febrero", "marzo", "abril", "mayo", "junio", "julio",
                 "agosto", "septiembre", "octubre", "noviembre", "diciembre">>

MonthAZeroBased(tok) ==
    IF \E i \in 1..12 : MonthNamesA[i] = tok
    THEN NumOk((CHOOSE i \in 1..12 : MonthNamesA[i] = tok) - 1)
    ELSE NumErr("Not a valid month: " \o tok)

MonthA(tok) ==
    IF \E i \in 1..12 : MonthNamesA[i] = tok
    THEN NumOk(CHOOSE i \in 1..12 : MonthNamesA[i] = tok)
    ELSE NumErr("Not a valid month: " \o tok)

parse_date(date) ==
    LET s == split_whitespace(date)
        day == IF Len(s) < 2 THEN NumErr("Unable to extract day from input string")
               ELSE parse_u32(s[2])
        year == IF Len(s) < 6 THEN NumErr("Unable to extract year from input string")
                ELSE parse_i32(s[6])
        month == IF Len(s) < 4 THEN NumErr("Unable to extract month from input string")
                 ELSE MonthA(s[4])
    IN IF day.kind # "ok" THEN Err(day.error)
       ELSE IF year.kind # "ok" THEN Err(year.error)
       ELSE IF month.kind # "ok" THEN Err(month.error)
       ELSE IF ~from_ymd_opt(year.num, month.num, day.num)
            THEN Err(InvalidDateMessage(year.num, month.num, day.num))
       ELSE NoonMadrid(year.num, month.num, day.num)

-----------------------------------------------------------------------------
(* Dialect B2: verde::reportajes_date *)

MonthNamesB2 == <<"Ene.", "Feb.", "Mar.", "Abr.", "Mayo.", "Jun.", "Jul.",
                  "Ago.", "Sep.", "Oct.", "Nov.", "Dic.">>

MonthB2Lenient(tok) ==
    IF \E i \in 1..12 : MonthNamesB2[i] = tok
    THEN NumOk(CHOOSE i \in 1..12 : MonthNamesB2[i] = tok)
    ELSE NumOk(1)

MonthB2(tok) ==
    IF \E i \in 1..12 : MonthNamesB2[i] = tok
    THEN NumOk(CHOOSE i \in 1..12 : MonthNamesB2[i] = tok)
    ELSE NumErr("Not a valid month: " \o tok)

reportajes_date(text) ==
    LET s == split_whitespace(text)
        day == IF Len(s) < 1 THEN NumErr("Unable to extract day from input string")
               ELSE parse_u32(s[1])
        year == IF Len(s) < 3 THEN NumErr("Unable to extract year from input string")
                ELSE parse_i32(s[3])
        month == IF Len(s) < 2 THEN NumErr("Unable to extract month from input string")
                 ELSE MonthB2(s[2])
    IN IF day.kind # "ok" THEN Err(day.error)
       ELSE IF year.kind # "ok" THEN Err(year.error)
       ELSE IF month.kind # "ok" THEN Err(month.error)
       ELSE IF ~from_ymd_opt(year.num, month.num, day.num)
            THEN Err(InvalidDateMessage(year.num, month.num, day.num))
       ELSE NoonMadrid(year.num, month.num, day.num)

-----------------------------------------------------------------------------
(* B1: text.parse::<NaiveDate>() in verde::parse_blog *)

\* chrono's FromStr for NaiveDate reads year "-" month "-" day, whitespace
\* allowed between the items.  A year without a sign has at most four digits.
naive_date_from_str(text) ==
    LET s == SelectSeq(text, LAMBDA p : p # Space)
    IN IF Len(s) < 5 THEN Err("premature end of input")
       ELSE IF Len(s) > 5 THEN Err("trailing input")
       ELSE IF ~(IsNumeral(s[1]) /\ s[2] = "-" /\ IsNumeral(s[3]) /\ s[4] = "-"
                 /\ IsNumeral(s[5]))
            THEN Err("input contains invalid characters")
       ELSE IF NumeralValue(s[1]) > 9999 THEN Err("input contains invalid characters")
       ELSE IF ~from_ymd_opt(NumeralValue(s[1]), NumeralValue(s[3]), NumeralValue(s[5]))
            THEN Err("input is out of range")
       ELSE Ok(<<NumeralValue(s[1]), NumeralValue(s[3]), NumeralValue(s[5])>>)

blog_date(text) ==
    LET fecha == naive_date_from_str(text)
    IN IF fecha.kind # "ok" THEN Err(fecha.error)
       ELSE NoonMadrid(fecha.value[1], fecha.value[2], fecha.value[3])

-----------------------------------------------------------------------------
(* Program constants *)

Sources == {"isabel", "blog", "reportajes"}

BLOG_URL_ARCHIVE == "https://marmenormarmayor.es/El-blog-de-Isabel/archive.html"

BLOG_URL_BLOG == "https://marmenormarmayor.es/El-blog-de-Isabel/"

MAIN_URL == "https://elclickverde.com"

BLOG_URL == "https://elclickverde.com/blog"

REPORTAJES_URL == "https://elclickverde.com/reportajes"

XML_TYPE == "application/xml"

IsabelSelectors ==
    [SELECTOR_SELECTION |-> ".blogsection",
     SELECTOR_TITLE |-> "h3.blogtitle a",
     SELECTOR_DATE |-> ".blogdate",
     SELECTOR_CONTENT |-> ".blogcontent"]

BlogSelectors ==
    [BLOG_SELECTOR_ENTRY |-> ".views-row",
     BLOG_SELECTOR_HEADER |-> ".group-header",
     BLOG_SELECTOR_EVEN_HEADER |-> ".field__item.even h2 a",
     BLOG_SELECTOR_RIGHT |-> ".group-right",
     BLOG_SELECTOR_EVEN_DESCRIPTION |-> "p:not(.rteright)",
     BLOG_SELECTOR_EVEN_DATE |-> "p.rteright span"]

ReportajesSelectors ==
    [REPORTAJES_SELECTOR_ENTRY |-> ".views-row",
     REPORTAJES_SELECTOR_HEADER |-> "div.field__item.even[property=\"dc:title\"] h2 a",
     REPORTAJES_SELECTOR_DESCRIPTION |-> "div.field__item.even[property=\"content:encoded\"]",
     REPORTAJES_SELECTOR_P |-> "p",
     REPORTAJES_SELECTOR_DATE |-> "div.field.field--name-post-date",
     REPORTAJES_SELECTOR_INNER_DATE |-> "div.field__item.even"]

SelectorNames ==
    DOMAIN IsabelSelectors \cup DOMAIN BlogSelectors \cup DOMAIN ReportajesSelectors

SelectorPattern(name) ==
    IF name \in DOMAIN IsabelSelectors THEN IsabelSelectors[name]
    ELSE IF name \in DOMAIN BlogSelectors THEN BlogSelectors[name]
    ELSE ReportajesSelectors[name]

\* Selector::parse(pattern): every pattern of the program is valid CSS.
Selector_parse(pattern) == Ok(pattern)

-----------------------------------------------------------------------------
(* LazyLock<Selector> *)

Uninit == "uninit"

\* LazyLock::force runs the initialiser only while the cell is uninitialised.
NeedsInitAlways(cell) == TRUE

NeedsInit(cell) == cell = Uninit

\* The statics after dereferencing the selectors in `used`.
Forced(used) ==
    [n \in SelectorNames |->
        IF n \in used /\ NeedsInit(lazy[n])
        THEN Selector_parse(SelectorPattern(n)).value
        ELSE lazy[n]]

Compiled(used) ==
    [n \in SelectorNames |->
        IF n \in used /\ NeedsInit(lazy[n]) THEN compiles[n] + 1 ELSE compiles[n]]

-----------------------------------------------------------------------------
(* Documents: what the selectors find in each node the entry selector matches *)

None == <<>>

Some(x) == <<x>>

\* anchor:   the title anchor (its text and its href attribute), if the title chain matches
\* header:   blog only: whether .group-header matches (the anchor is looked up inside it)
\* container: blog: .group-right matches; reportajes: the content:encoded div matches
\* bodies:   the texts of the nodes the description selector matches, in order
\* date_box: reportajes only: whether div.field--name-post-date matches
\* date:     the text of the node the date chain reaches
GoodNode(text, href, body, date) ==
    [anchor |-> Some([text |-> text, href |-> Some(href)]),
     header |-> TRUE, container |-> TRUE,
     bodies |-> <<<<"pie", Space>>, body>>,
     date_box |-> TRUE, date |-> Some(date)]

Date1(h) ==
    IF h = "isabel"
    THEN <<"jueves,", Space, "3", Space, "de", Space, "enero", Space, "de", Space, "2024">>
    ELSE IF h = "blog" THEN <<"2024", "-", "01", "-", "03">>
    ELSE <<"3", Space, "Ene.", Space, "2024">>

Date2(h) ==
    IF h = "isabel"
    THEN <<"martes,", Space, "15", Space, "de", Space, "agosto", Space, "de", Space, "2023">>
    ELSE IF h = "blog" THEN <<"2023", "-", "08", "-", "15">>
    ELSE <<"15", Space, "Ago.", Space, "2023">>

\* A date the normaliser rejects.
DateBad(h) ==
    IF h = "isabel"
    THEN <<"jueves,", Space, "3", Space, "de", Space, "Xyz", Space, "de", Space, "2024">>
    ELSE IF h = "blog" THEN <<"2023", "-", "02", "-", "29">>
    ELSE <<"30", Space, "Feb.", Space, "2024">>

\* A date in a five-digit year (only the tokenised dialects read one).
DateFar(h) ==
    IF h = "isabel"
    THEN <<"jueves,", Space, "3", Space, "de", Space, "enero", Space, "de", Space, "12024">>
    ELSE IF h = "blog" THEN <<"12024", "-", "01", "-", "03">>
    ELSE <<"3", Space, "Ene.", Space, "12024">>

NodeA(h) == GoodNode(<<Space, "Uno", Space>>, "/uno", <<"cuerpo", Space, "uno", Space>>, Date1(h))

NodeB(h) == GoodNode(<<"Dos">>, "/dos", <<Space, "cuerpo", Space, "dos">>, Date2(h))

EntryKinds(h) ==
    LET a == NodeA(h)
    IN {a, NodeB(h),
        [a EXCEPT !.anchor = None, !.header = FALSE],
        [a EXCEPT !.anchor = None],
        [a EXCEPT !.anchor = Some([text |-> <<"Uno">>, href |-> None])],
        [a EXCEPT !.container = FALSE, !.bodies = <<>>],
        [a EXCEPT !.bodies = <<>>],
        [a EXCEPT !.bodies = <<<<"pie">>>>],
        [a EXCEPT !.date = None, !.date_box = FALSE],
        [a EXCEPT !.date = None],
        [a EXCEPT !.date = Some(DateBad(h))],
        [a EXCEPT !.date = Some(DateFar(h))]}

\* The pages with at most n entries.
Docs(h, n) == UNION {[1..k -> EntryKinds(h)] : k \in 0..n}

-----------------------------------------------------------------------------
(* rss: Channel, Item, Guid *)

ChannelTitle(h) ==
    IF h = "isabel" THEN "El blog de Isabel"
    ELSE IF h = "blog" THEN "Blog | elclickverde" ELSE "Reportajes | elclickverde"

ChannelLink(h) ==
    IF h = "isabel" THEN BLOG_URL_BLOG ELSE IF h = "blog" THEN BLOG_URL ELSE REPORTAJES_URL

ChannelDescription(h) ==
    IF h = "isabel" THEN "Últimas entradas del blog de Isabel"
    ELSE IF h = "blog" THEN "Últimas entradas del blog de elclickverde"
    ELSE "Últimos reportajes de elclickverde"

\* ChannelBuilder::default().title(..).link(..).description(..).build()
ChannelBuild(h) ==
    [title |-> ChannelTitle(h), link |-> ChannelLink(h),
     description |-> ChannelDescription(h), items |-> <<>>]

NoChannel == [title |-> "", link |-> "", description |-> "", items |-> <<>>]

ItemBuildNoGuid(title, link, description, date) ==
    [title |-> title, link |-> link, description |-> description,
     guid |-> [present |-> FALSE, value |-> "", permalink |-> FALSE],
     pub_date |-> date]

\* ItemBuilder::default().title(..).link(link.clone()).description(..)
\*     .guid(Some(Guid { value: link, permalink: true })).pub_date(..).build()
ItemBuild(title, link, description, date) ==
    [title |-> title, link |-> link, description |-> description,
     guid |-> [present |-> TRUE, value |-> link, permalink |-> TRUE],
     pub_date |-> date]

PushUnlessSeen(items, item) ==
    IF \E i \in 1..Len(items) : items[i].link = item.link THEN items
    ELSE Append(items, item)

\* rss_channel.items.push(item)
Push(items, item) == Append(items, item)

ItemXml(it) ==
    "<item><title>" \o it.title \o "</title><link>" \o it.link
    \o "</link><description><![CDATA[" \o it.description \o "]]></description>"
    \o (IF it.guid.present
        THEN (IF it.guid.permalink THEN "<guid>" ELSE "<guid isPermaLink=\"false\">")
             \o it.guid.value \o "</guid>"
        ELSE "")
    \o "<pubDate>" \o it.pub_date \o "</pubDate></item>"

RECURSIVE ItemsXml(_)
ItemsXml(items) == IF items = <<>> THEN "" ELSE ItemXml(Head(items)) \o ItemsXml(Tail(items))

\* Channel::to_string()
ChannelToString(ch) ==
    "<?xml version=\"1.0\" encoding=\"utf-8\"?><rss version=\"2.0\"><channel><title>"
    \o ch.title \o "</title><link>" \o ch.link \o "</link><description>"
    \o ch.description \o "</description>" \o ItemsXml(ch.items) \o "</channel></rss>"

-----------------------------------------------------------------------------
(* Responses *)

Pending == [kind |-> "pending", status |-> 0, content_type |-> "", body |-> ""]

\* The connection task died: the client gets no response at all.
Dropped == [kind |-> "dropped", status |-> 0, content_type |-> "", body |-> ""]

Sent(status, ctype, body) ==
    [kind |-> "sent", status |-> status, content_type |-> ctype, body |-> body]

\* HeaderValue::from_str: visible ASCII only.  XML_TYPE is.
HeaderValueParse(v) == IF v = XML_TYPE THEN Ok(v) ELSE Err("failed to parse header value")

make_rss_nonempty(ch) ==
    IF ch.items = <<>> THEN Err("empty channel")
    ELSE Ok(Sent(200, XML_TYPE, ChannelToString(ch)))

\* rss_utils::make_rss
make_rss(ch) ==
    LET xml == HeaderValueParse(XML_TYPE)
    IN IF xml.kind # "ok" THEN Err(xml.error)
       ELSE Ok(Sent(200, xml.value, ChannelToString(ch)))

-----------------------------------------------------------------------------
(* Initial states *)

NoLocal == [title |-> "", date |-> <<>>, pub_date |-> "", content |-> "", link |-> ""]

NoOutcome == [kind |-> "none", value |-> "", error |-> ""]

NoResult == [kind |-> "pending", value |-> "", error |-> ""]

ProcessStart ==
    /\ lazy = [n \in SelectorNames |-> Uninit]
    /\ compiles = [n \in SelectorNames |-> 0]
    /\ served = 0
    /\ handler = "none"
    /\ pc = "idle"
    /\ stage = "Idle"
    /\ content = None
    /\ document = <<>>
    /\ idx = 0
    /\ local = NoLocal
    /\ rss_channel = NoChannel
    /\ response = Pending
    /\ logged = ""
    /\ outcome = NoOutcome

Init ==
    /\ ProcessStart
    /\ dialect = "none"
    /\ input = <<>>
    /\ result = NoResult

-----------------------------------------------------------------------------
(* Steps shared by the three handlers *)

EntrySelector(h) ==
    IF h = "isabel" THEN "SELECTOR_SELECTION"
    ELSE IF h = "blog" THEN "BLOG_SELECTOR_ENTRY" ELSE "REPORTAJES_SELECTOR_ENTRY"

\* One step of the future: the next position, the stage it belongs to, the
\* loop locals, the value returned so far, and the statics it dereferenced.
Step(p, st, loc, out, used) ==
    /\ pc' = p
    /\ stage' = st
    /\ local' = loc
    /\ outcome' = out
    /\ lazy' = Forced(used)
    /\ compiles' = Compiled(used)
    /\ UNCHANGED <<served, handler, content, document, idx, rss_channel, response,
                   logged, dateVars>>

\* `?` on an Err: the function returns it.
Return(st, out, used) == Step("respond", st, local, out, used)

\* A panic unwinds out of the handler.
Unwind(st, out, used) == Step("unwind", st, local, out, used)

\* The router hands a GET to one of the three handlers.
StartRequest(limit) ==
    /\ pc = "idle"
    /\ served < limit
    /\ \E h \in Sources : handler' = h
    /\ served' = served + 1
    /\ pc' = "fetch"
    /\ stage' = "Fetching"
    /\ UNCHANGED <<lazy, compiles, content, document, idx, local, rss_channel,
                   response, logged, outcome, dateVars>>

\* reqwest::get(URL).await?.text().await? returns the page.
FetchOk(maxEntries) ==
    /\ pc = "fetch"
    /\ \E d \in Docs(handler, maxEntries) : content' = Some(d)
    /\ pc' = "parse"
    /\ UNCHANGED <<lazy, compiles, served, handler, stage, document, idx, local,
                   rss_channel, response, logged, outcome, dateVars>>

\* reqwest::get(URL).await? or .text().await? fails.
FetchErr ==
    /\ pc = "fetch"
    /\ Return("Fetching", Err("error sending request for url"), {})

\* Html::parse_document(&content)
ParseDocument ==
    /\ pc = "parse"
    /\ document' = content[1]
    /\ pc' = "channel"
    /\ stage' = "Parsing"
    /\ UNCHANGED <<lazy, compiles, served, handler, content, idx, local, rss_channel,
                   response, logged, outcome, dateVars>>

\* let mut rss_channel = ChannelBuilder::default()...build()
BuildChannel ==
    /\ pc = "channel"
    /\ rss_channel' = ChannelBuild(handler)
    /\ pc' = "select"
    /\ stage' = "Synthesizing"
    /\ UNCHANGED <<lazy, compiles, served, handler, content, document, idx, local,
                   response, logged, outcome, dateVars>>

\* document.select(&ENTRY): the iterator of the for loop
SelectEntries ==
    /\ pc = "select"
    /\ Step("next", "Extracting", local, outcome, {EntrySelector(handler)})

FirstStep(h) == IF h = "isabel" THEN "title" ELSE "header"

ForNextSkipLast ==
    IF idx + 1 < Len(document)
    THEN /\ idx' = idx + 1
         /\ pc' = FirstStep(handler)
         /\ local' = NoLocal
    ELSE /\ idx' = idx
         /\ pc' = "render"
         /\ local' = local

\* The for loop takes the next element, or ends.
ForNextBody ==
    IF idx < Len(document)
    THEN /\ idx' = idx + 1
         /\ pc' = FirstStep(handler)
         /\ local' = NoLocal
    ELSE /\ idx' = idx
         /\ pc' = "render"
         /\ local' = local

ForNext ==
    /\ pc = "next"
    /\ ForNextBody
    /\ stage' = "Extracting"
    /\ UNCHANGED <<lazy, compiles, served, handler, content, document, rss_channel,
                   response, logged, outcome, dateVars>>

element == document[idx]

\* ItemBuilder ... build(); rss_channel.items.push(item)
PushItem ==
    /\ pc = "push"
    /\ rss_channel' =
         [rss_channel EXCEPT !.items =
             Push(@, ItemBuild(local.title, local.link, local.content, local.pub_date))]
    /\ pc' = "next"
    /\ stage' = "Synthesizing"
    /\ UNCHANGED <<lazy, compiles, served, handler, content, document, idx, local,
                   response, logged, outcome, dateVars>>

\* rss_utils::make_rss(rss_channel)
MakeRss ==
    /\ pc = "render"
    /\ Return("Rendering", make_rss(rss_channel), {})

\* StatusCode::NO_CONTENT.into_response()
NoContent == Sent(204, "", "")

\* isabel::rss / verde::blog_rss / verde::reportajes_rss:
\* .map(|resp| resp.into_response()).unwrap_or_else(|e| { error!(..); NO_CONTENT })
Respond ==
    /\ pc = "respond"
    /\ IF outcome.kind = "ok"
       THEN /\ response' = outcome.value
            /\ logged' = logged
            /\ stage' = "Success"
       ELSE /\ response' = NoContent
            /\ logged' = "Error parsing the content of the HTML: " \o outcome.error
            /\ stage' = "Failed"
    /\ pc' = "done"
    /\ UNCHANGED <<lazy, compiles, served, handler, content, document, idx, local,
                   rss_channel, outcome, dateVars>>

\* No layer of the router catches a panic: the connection task ends and the
\* client receives nothing.
Abort ==
    /\ pc = "unwind"
    /\ response' = Dropped
    /\ stage' = "Panicked"
    /\ pc' = "done"
    /\ UNCHANGED <<lazy, compiles, served, handler, content, document, idx, local,
                   rss_channel, logged, outcome, dateVars>>

\* The request's values are dropped; the statics stay.
Finish ==
    /\ pc = "done"
    /\ pc' = "idle"
    /\ handler' = "none"
    /\ stage' = "Idle"
    /\ content' = None
    /\ document' = <<>>
    /\ idx' = 0
    /\ local' = NoLocal
    /\ rss_channel' = NoChannel
    /\ response' = Pending
    /\ logged' = ""
    /\ outcome' = NoOutcome
    /\ UNCHANGED <<lazy, compiles, served, dateVars>>

\* A normalised date: Ok continues, Err returns, a panic unwinds.
AfterDate(r, nextPc, used) ==
    IF r.kind = "ok"
    THEN Step(nextPc, "Normalizing", [local EXCEPT !.pub_date = r.value], outcome, used)
    ELSE IF r.kind = "err" THEN Return("Normalizing", Err(r.error), used)
    ELSE Unwind("Normalizing", r, used)

-----------------------------------------------------------------------------
(* isabel::parse_content: the loop body *)

IsabelTitle ==
    /\ handler = "isabel" /\ pc = "title"
    /\ IF element.anchor = None
       THEN Return("Extracting", Err("Unable to parse title"), {"SELECTOR_TITLE"})
       ELSE Step("date", "Extracting",
                 [local EXCEPT !.title = Flatten(trim(element.anchor[1].text))],
                 outcome, {"SELECTOR_TITLE"})

IsabelDate ==
    /\ handler = "isabel" /\ pc = "date"
    /\ IF element.date = None
       THEN Return("Extracting", Err("Unable to parse date"), {"SELECTOR_DATE"})
       ELSE Step("normalize", "Extracting",
                 [local EXCEPT !.date = trim(element.date[1])], outcome,
                 {"SELECTOR_DATE"})

IsabelNormalize ==
    /\ handler = "isabel" /\ pc = "normalize"
    /\ AfterDate(parse_date(local.date), "content", {})

IsabelContent ==
    /\ handler = "isabel" /\ pc = "content"
    /\ IF element.bodies = <<>>
       THEN Return("Extracting", Err("Unable to parse content"), {"SELECTOR_CONTENT"})
       ELSE Step("link", "Extracting",
                 [local EXCEPT !.content = Flatten(trim(element.bodies[1]))],
                 outcome, {"SELECTOR_CONTENT"})

IsabelLink ==
    /\ handler = "isabel" /\ pc = "link"
    /\ IF element.anchor = None \/ element.anchor[1].href = None
       THEN Return("Extracting", Err("Unable to parse link"), {"SELECTOR_TITLE"})
       ELSE Step("push", "Extracting",
                 [local EXCEPT !.link = BLOG_URL_BLOG \o element.anchor[1].href[1]],
                 outcome, {"SELECTOR_TITLE"})

-----------------------------------------------------------------------------
(* verde::parse_blog: the loop body *)

BlogHeader ==
    /\ handler = "blog" /\ pc = "header"
    /\ LET used == {"BLOG_SELECTOR_HEADER"}
                   \cup (IF element.header THEN {"BLOG_SELECTOR_EVEN_HEADER"} ELSE {})
       IN IF ~element.header \/ element.anchor = None
          THEN Return("Extracting", Err("Unable to parse header"), used)
          ELSE Step("url", "Extracting", local, outcome, used)

BlogUrl ==
    /\ handler = "blog" /\ pc = "url"
    /\ IF element.anchor[1].href = None
       THEN Return("Extracting", Err("Unable to extract URL"), {})
       ELSE Step("right", "Extracting",
                 [local EXCEPT !.link = MAIN_URL \o element.anchor[1].href[1],
                               !.title = Flatten(trim(element.anchor[1].text))],
                 outcome, {})

BlogRight ==
    /\ handler = "blog" /\ pc = "right"
    /\ IF ~element.container
       THEN Return("Extracting", Err("Unable to parse right"), {"BLOG_SELECTOR_RIGHT"})
       ELSE Step("description", "Extracting", local, outcome, {"BLOG_SELECTOR_RIGHT"})

BlogDescription ==
    /\ handler = "blog" /\ pc = "description"
    /\ IF element.bodies = <<>>
       THEN Return("Extracting", Err("Unable to parse even description"),
                   {"BLOG_SELECTOR_EVEN_DESCRIPTION"})
       ELSE Step("date", "Extracting",
                 [local EXCEPT !.content = Flatten(trim(element.bodies[1]))],
                 outcome, {"BLOG_SELECTOR_EVEN_DESCRIPTION"})

BlogDate ==
    /\ handler = "blog" /\ pc = "date"
    /\ IF element.date = None
       THEN Return("Extracting", Err("Unable to parse even date"),
                   {"BLOG_SELECTOR_EVEN_DATE"})
       ELSE Step("normalize", "Extracting",
                 [local EXCEPT !.date = trim(element.date[1])], outcome,
                 {"BLOG_SELECTOR_EVEN_DATE"})

BlogNormalize ==
    /\ handler = "blog" /\ pc = "normalize"
    /\ AfterDate(blog_date(local.date), "push", {})

-----------------------------------------------------------------------------
(* verde::parse_reportajes: the loop body *)

ReportajesHeader ==
    /\ handler = "reportajes" /\ pc = "header"
    /\ IF element.anchor = None
       THEN Return("Extracting", Err("Unable to parse header"),
                   {"REPORTAJES_SELECTOR_HEADER"})
       ELSE Step("url", "Extracting", local, outcome, {"REPORTAJES_SELECTOR_HEADER"})

ReportajesUrl ==
    /\ handler = "reportajes" /\ pc = "url"
    /\ IF element.anchor[1].href = None
       THEN Return("Extracting", Err("Unable to extract URL"), {})
       ELSE Step("description", "Extracting",
                 [local EXCEPT !.link = MAIN_URL \o element.anchor[1].href[1],
                               !.title = Flatten(trim(element.anchor[1].text))],
                 outcome, {})

ReportajesDescription ==
    /\ handler = "reportajes" /\ pc = "description"
    /\ IF ~element.container
       THEN Return("Extracting", Err("Unable to parse description"),
                   {"REPORTAJES_SELECTOR_DESCRIPTION"})
       ELSE IF Len(element.bodies) < 2
            THEN Return("Extracting", Err("Unable to extract description"),
                        {"REPORTAJES_SELECTOR_DESCRIPTION", "REPORTAJES_SELECTOR_P"})
       ELSE Step("date", "Extracting",
                 [local EXCEPT !.content = Flatten(trim(element.bodies[2]))],
                 outcome, {"REPORTAJES_SELECTOR_DESCRIPTION", "REPORTAJES_SELECTOR_P"})

ReportajesDate ==
    /\ handler = "reportajes" /\ pc = "date"
    /\ LET used == {"REPORTAJES_SELECTOR_DATE"}
                   \cup (IF element.date_box THEN {"REPORTAJES_SELECTOR_INNER_DATE"}
                         ELSE {})
       IN IF ~element.date_box \/ element.date = None
          THEN Return("Extracting", Err("Unable to parse inner date"), used)
          ELSE Step("normalize", "Extracting",
                    [local EXCEPT !.date = trim(element.date[1])], outcome, used)

ReportajesNormalize ==
    /\ handler = "reportajes" /\ pc = "normalize"
    /\ AfterDate(reportajes_date(local.date), "push", {})

-----------------------------------------------------------------------------
(* Specifications *)

LoopBody ==
    \/ IsabelTitle \/ IsabelDate \/ IsabelNormalize \/ IsabelContent \/ IsabelLink
    \/ BlogHeader \/ BlogUrl \/ BlogRight \/ BlogDescription \/ BlogDate
    \/ BlogNormalize
    \/ ReportajesHeader \/ ReportajesUrl \/ ReportajesDescription \/ ReportajesDate
    \/ ReportajesNormalize

Handle ==
    \/ FetchErr \/ ParseDocument \/ BuildChannel \/ SelectEntries \/ ForNext
    \/ LoopBody \/ PushItem \/ MakeRss \/ Respond \/ Abort \/ Finish

\* One process, pages of up to MaxEntries entries.
Next == StartRequest(MaxRequests) \/ FetchOk(MaxEntries) \/ Handle

Spec == Init /\ [][Next]_vars

\* One process serving several requests, small pages: the life of the statics.
LazyNext == StartRequest(LazyMaxRequests) \/ FetchOk(LazyMaxEntries) \/ Handle

LazySpec == Init /\ [][LazyNext]_vars

-----------------------------------------------------------------------------
(* The date normalisers on their own *)

DayTokens == {"0", "3", "03", "15", "29", "30", "31", "32", "tres"}

YearTokens == {"2023", "2024", "12024", "hoy"}

MonthTokensA == {MonthNamesA[i] : i \in 1..12} \cup {"Xyz", "Enero", "Ene."}

MonthTokensB2 == {MonthNamesB2[i] : i \in 1..12} \cup {"Xyz.", "May.", "enero"}

\* Complete token lists, their prefixes, and the lists without their first token.
TokenLists(d) ==
    LET full == IF d = "A"
                THEN {<<"jueves,", t[1], "de", t[2], "de", t[3]>> :
                        t \in DayTokens \X MonthTokensA \X YearTokens}
                ELSE {<<t[1], t[2], t[3]>> :
                        t \in DayTokens \X MonthTokensB2 \X YearTokens}
        shorter == IF d = "A" THEN 0..5 ELSE 0..2
    IN full
       \cup {SubSeq(w, 1, k) : w \in full, k \in shorter}
       \cup {Tail(w) : w \in full}

RECURSIVE Join(_, _)
Join(words, gap) ==
    IF words = <<>> THEN <<>>
    ELSE IF Len(words) = 1 THEN <<Head(words)>>
    ELSE <<Head(words)>> \o gap \o Join(Tail(words), gap)

\* Each token list with single spaces, and with surrounding and doubled whitespace;
\* two texts whose words are written in several pieces.
DateInputs(d) ==
    {Join(w, <<Space>>) : w \in TokenLists(d)}
    \cup {<<Space>> \o Join(w, <<Space, Space>>) \o <<Space>> : w \in TokenLists(d)}
    \cup (IF d = "A"
          THEN {<<"jueves", ",", Space, "3", Space, "de", Space, "ene", "ro", Space,
                  "de", Space, "20", "24">>}
          ELSE {<<"15", Space, "Ago", ".", Space, "20", "23">>})

DateInit ==
    /\ ProcessStart
    /\ dialect \in {"A", "B2"}
    /\ input \in DateInputs(dialect)
    /\ result = NoResult

\* isabel::parse_date(input)
NormalizeA ==
    /\ dialect = "A"
    /\ result.kind = "pending"
    /\ result' = parse_date(input)
    /\ UNCHANGED <<pipelineVars, dialect, input>>

\* verde::reportajes_date(input)
NormalizeB2 ==
    /\ dialect = "B2"
    /\ result.kind = "pending"
    /\ result' = reportajes_date(input)
    /\ UNCHANGED <<pipelineVars, dialect, input>>

DateNext == NormalizeA \/ NormalizeB2

DateSpec == DateInit /\ [][DateNext]_vars

-----------------------------------------------------------------------------
(* What the claims speak of *)

Finished == pc = "done"

Fetched == content # None

Page == content[1]

Items == rss_channel.items

DescriptionOf(h, n) ==
    IF h = "isabel" THEN (IF n.bodies = <<>> THEN None ELSE Some(n.bodies[1]))
    ELSE IF h = "blog"
         THEN (IF n.container /\ n.bodies # <<>> THEN Some(n.bodies[1]) ELSE None)
    ELSE (IF n.container /\ Len(n.bodies) >= 2 THEN Some(n.bodies[2]) ELSE None)

DateOf(h, n) ==
    IF h = "blog" /\ ~n.container THEN None
    ELSE IF h = "reportajes" /\ ~n.date_box THEN None
    ELSE n.date

\* The node has its title anchor, its href, its description and its date.
HasMandatoryFields(h, n) ==
    /\ n.anchor # None
    /\ n.anchor[1].href # None
    /\ DescriptionOf(h, n) # None
    /\ DateOf(h, n) # None

Normalizer(h, text) ==
    IF h = "isabel" THEN parse_date(trim(text))
    ELSE IF h = "blog" THEN blog_date(trim(text))
    ELSE reportajes_date(trim(text))

DateNormalizes(h, n) == DateOf(h, n) # None /\ Normalizer(h, DateOf(h, n)[1]).kind = "ok"

BadEntry(h, n) == ~HasMandatoryFields(h, n) \/ ~DateNormalizes(h, n)

WellFormed(h, page) == \A i \in 1..Len(page) : ~BadEntry(h, page[i])

BaseOf(h) == IF h = "isabel" THEN "https://marmenormarmayor.es/El-blog-de-Isabel/"
             ELSE "https://elclickverde.com"

\* The four fields an item takes from its node.
SameEntry(h, it, n) ==
    /\ it.title = Flatten(trim(n.anchor[1].text))
    /\ it.link = BaseOf(h) \o n.anchor[1].href[1]
    /\ it.description = Flatten(trim(DescriptionOf(h, n)[1]))
    /\ it.pub_date = Normalizer(h, DateOf(h, n)[1]).value

Envelope(h) ==
    IF h = "isabel"
    THEN [title |-> "El blog de Isabel",
          link |-> "https://marmenormarmayor.es/El-blog-de-Isabel/",
          description |-> "Últimas entradas del blog de Isabel", items |-> <<>>]
    ELSE IF h = "blog"
    THEN [title |-> "Blog | elclickverde", link |-> "https://elclickverde.com/blog",
          description |-> "Últimas entradas del blog de elclickverde", items |-> <<>>]
    ELSE [title |-> "Reportajes | elclickverde",
          link |-> "https://elclickverde.com/reportajes",
          description |-> "Últimos reportajes de elclickverde", items |-> <<>>]

FeedResponse ==
    /\ response.kind = "sent"
    /\ response.status = 200
    /\ response.content_type = "application/xml"
    /\ response.body = ChannelToString(rss_channel)

NoContentResponse ==
    /\ response.kind = "sent"
    /\ response.status = 204
    /\ response.body = ""

-----------------------------------------------------------------------------
(* C1 *)

\* C1: whenever the fetched page holds at least one entry that lacks a
\* mandatory field or whose date does not normalise, the request ends in the
\* failure outcome (204 No Content), wherever the bad entry stands.
C1_BadEntryEndsInFailure ==
    (Finished /\ Fetched /\ \E i \in 1..Len(Page) : BadEntry(handler, Page[i]))
        => (NoContentResponse /\ stage = "Failed")

-----------------------------------------------------------------------------
(* C2 *)

\* C2: every finished request has received either 200 with the XML content
\* type and the rendered feed, or 204 with an empty body; every failure gives
\* the 204.
C2_FeedOrNoContent ==
    Finished => /\ (FeedResponse \/ NoContentResponse)
                /\ (outcome.kind # "ok" => NoContentResponse)

-----------------------------------------------------------------------------
(* C3 *)

\* C3: a fetched page with no entry ends in Success: status 200, the fixed
\* envelope of the source, and no item.
C3_EmptyPageIsEmptyFeed ==
    (Finished /\ Fetched /\ Page = <<>>)
        => /\ stage = "Success"
           /\ FeedResponse
           /\ rss_channel = Envelope(handler)

C3_Witness == Finished /\ Fetched /\ Page = <<>> /\ handler = "reportajes"

-----------------------------------------------------------------------------
(* C4 *)

\* C4: a well-formed page is answered with a feed that has one item per
\* entry, the i-th item built from the i-th entry, duplicates kept.
C4_OneItemPerEntryInOrder ==
    (Finished /\ Fetched /\ WellFormed(handler, Page))
        => /\ stage = "Success"
           /\ FeedResponse
           /\ Len(Items) = Len(Page)
           /\ \A i \in 1..Len(Page) : SameEntry(handler, Items[i], Page[i])

C4_Witness ==
    /\ Finished /\ Fetched /\ WellFormed(handler, Page)
    /\ Len(Page) = 2
    /\ Page[1] = Page[2]
    /\ Len(Items) = 2

-----------------------------------------------------------------------------
(* C5 *)

\* C5: every item of the channel, at every moment, has a guid, whose value is
\* the item's link and whose permalink flag is true.
C5_GuidIsLink ==
    \A i \in 1..Len(Items) :
        /\ Items[i].guid.present
        /\ Items[i].guid.value = Items[i].link
        /\ Items[i].guid.permalink

C5_Witness == Len(Items) = 2 /\ Items[1].link # Items[2].link /\ Finished

-----------------------------------------------------------------------------
(* What the date claims speak of *)

Normalized == result.kind # "pending"

Tokens == split_whitespace(input)

DayPosition == IF dialect = "A" THEN 2 ELSE 1

MonthPosition == IF dialect = "A" THEN 4 ELSE 2

YearPosition == IF dialect = "A" THEN 6 ELSE 3

MonthTable == IF dialect = "A" THEN MonthNamesA ELSE MonthNamesB2

\* The numbers a numeral at position i of the token list denotes (none, or one).
NumbersAt(toks, i, range) ==
    IF Len(toks) < i THEN {}
    ELSE {n \in range : toks[i] \in {ToString(n), ZeroPadded(n)}}

\* The table months named at the month position (none, or one).
MonthsAt(toks) ==
    IF Len(toks) < MonthPosition THEN {}
    ELSE {m \in 1..12 : toks[MonthPosition] = MonthTable[m]}

\* The (year, month, day) triples the input has at the positions of its dialect.
Readings(years, days) ==
    LET toks == Tokens
    IN NumbersAt(toks, YearPosition, years) \X MonthsAt(toks)
       \X NumbersAt(toks, DayPosition, days)

LeapYears == {2024, 12024}

\* The dates of the calendar, without reference to chrono.
CalendarDate(y, m, d) ==
    /\ m \in 1..12
    /\ d \in 1..31
    /\ ~(m \in {4, 6, 9, 11} /\ d = 31)
    /\ ~(m = 2 /\ d > 29)
    /\ ~(m = 2 /\ d = 29 /\ y \notin LeapYears)

\* Years RFC 2822 can write.
FourDigitYears == {y \in Years : y <= 9999}

Noon(y, m, d, offset) ==
    [kind |-> "Single", year |-> y, month |-> m, day |-> d,
     hour |-> 12, minute |-> 0, second |-> 0, offset |-> offset]

ExampleA ==
    <<"jueves,", Space, "3", Space, "de", Space, "enero", Space, "de", Space, "2024">>

ExampleB2 == <<"15", Space, "Ago.", Space, "2023">>

-----------------------------------------------------------------------------
(* C6 *)

\* C6: an input with a day, a table month and a four-digit year at the
\* positions of its dialect (A: tokens 1, 3, 5; B2: tokens 0, 1, 2), forming a
\* calendar date, yields that date at 12:00:00 Madrid time; the i-th table
\* entry is month i; "jueves, 3 de enero de 2024" gives 2024-01-03 noon +0100
\* and "15 Ago. 2023" gives 2023-08-15 noon +0200.
C6_WellFormedDates ==
    Normalized =>
        /\ \A r \in Readings(FourDigitYears, 1..31) :
              CalendarDate(r[1], r[2], r[3])
                  => /\ result.kind = "ok"
                     /\ \E offset \in {1, 2} :
                           result.value
                             = to_rfc2822(Noon(r[1], r[2], r[3], offset)).value
        /\ (dialect = "A" /\ input = ExampleA)
              => result = to_rfc2822(Noon(2024, 1, 3, 1))
        /\ (dialect = "B2" /\ input = ExampleB2)
              => result = to_rfc2822(Noon(2023, 8, 15, 2))

C6_Witness ==
    /\ Normalized /\ dialect = "B2" /\ input = ExampleB2
    /\ result.value = "Tue, 15 Aug 2023 12:00:00 +0200"

-----------------------------------------------------------------------------
(* C7 *)

UnknownMonth == Len(Tokens) >= MonthPosition /\ MonthsAt(Tokens) = {}

DayAndYearRead ==
    /\ NumbersAt(Tokens, DayPosition, Numbers) # {}
    /\ NumbersAt(Tokens, YearPosition, Numbers) # {}

\* C7 as claimed: every input whose month-position token is not in the table
\* of its dialect is rejected with the error that names that token.
C7_UnknownMonthNamed ==
    (Normalized /\ UnknownMonth)
        => result = Err("Not a valid month: " \o Tokens[MonthPosition])

\* C7 as amended: such an input is always rejected with an error (no
\* timestamp, no panic); the error names the token when the day and year
\* tokens are present and numeric, and is otherwise the error of the day or
\* of the year, which are read first.
C7_UnknownMonthRejected ==
    (Normalized /\ UnknownMonth)
        => /\ result.kind = "err"
           /\ result.value = ""
           /\ DayAndYearRead
                 => result.error = "Not a valid month: " \o Tokens[MonthPosition]
           /\ ~DayAndYearRead
                 => result.error \in {"invalid digit found in string",
                                      "Unable to extract year from input string"}

C7_Witness ==
    /\ Normalized /\ dialect = "B2"
    /\ input = <<"15", Space, "Xyz.", Space, "2023">>
    /\ result.error = "Not a valid month: Xyz."

-----------------------------------------------------------------------------
(* C8 *)

\* C8: a returned timestamp is that of a calendar date with month 1..12; an
\* input that reads as numbers and a table month but is no calendar date is
\* rejected with the error that names year, month and day.
C8_OnlyCalendarDates ==
    Normalized =>
        /\ result.kind = "ok"
              => \E r \in Readings(FourDigitYears, 1..31), offset \in {1, 2} :
                    /\ CalendarDate(r[1], r[2], r[3])
                    /\ result.value = to_rfc2822(Noon(r[1], r[2], r[3], offset)).value
        /\ \A r \in Readings(Years, 0..MaxSmall) :
              ~CalendarDate(r[1], r[2], r[3])
                  => result = Err("Unable to form date with values year = "
                                  \o ToString(r[1]) \o ", month = " \o ToString(r[2])
                                  \o " and day = " \o ToString(r[3]))

C8_Witness ==
    /\ Normalized /\ dialect = "A"
    /\ input = <<"jueves,", Space, "29", Space, "de", Space, "febrero", Space, "de",
                 Space, "2023">>
    /\ result.error
         = "Unable to form date with values year = 2023, month = 2 and day = 29"

-----------------------------------------------------------------------------
(* C9 *)

InLoopBody ==
    pc \in {"title", "header", "url", "right", "description", "date", "normalize",
            "content", "link", "push"}

\* C9 as claimed: no entry is normalised or added to the feed before all
\* entries of the page have been extracted.
C9_AllExtractedFirst ==
    (pc \in {"normalize", "push"} \/ Len(Items) > 0) => idx = Len(document)

\* The stage changes the handlers make.
StageSteps ==
    {<<"Idle", "Fetching">>, <<"Fetching", "Parsing">>, <<"Parsing", "Synthesizing">>,
     <<"Synthesizing", "Extracting">>, <<"Extracting", "Normalizing">>,
     <<"Normalizing", "Extracting">>, <<"Normalizing", "Synthesizing">>,
     <<"Extracting", "Synthesizing">>, <<"Extracting", "Rendering">>,
     <<"Rendering", "Success">>,
     <<"Fetching", "Failed">>, <<"Extracting", "Failed">>, <<"Normalizing", "Failed">>,
     <<"Normalizing", "Panicked">>,
     <<"Success", "Idle">>, <<"Failed", "Idle">>, <<"Panicked", "Idle">>}

EntryAtATime ==
    /\ pc \in {"fetch", "parse", "channel"} => (idx = 0 /\ Items = <<>>)
    /\ InLoopBody => (idx >= 1 /\ Len(Items) = idx - 1)
    /\ pc \in {"select", "next"} => Len(Items) = idx
    /\ stage \in {"Rendering", "Success"}
          => (idx = Len(document) /\ Len(Items) = Len(document))
    /\ \A i \in 1..Len(Items) : Items[i].link = BaseOf(handler) \o document[i].anchor[1].href[1]

\* C9 as amended: a request fetches, parses and builds the envelope once,
\* then takes the entries one at a time (extract, normalise, append: entry
\* i + 1 is not touched before the item of entry i is in the channel), renders
\* only when every entry has its item, and ends in Success, Failed or a panic;
\* an error goes straight to Failed.
C9_EntryAtATime ==
    /\ []EntryAtATime
    /\ [][stage' # stage => <<stage, stage'>> \in StageSteps]_vars

C9_Witness ==
    /\ pc \in {"title", "header"}
    /\ idx = 2
    /\ Len(Items) = 1
    /\ stage = "Extracting"

-----------------------------------------------------------------------------
(* C10 *)

\* C10 as claimed: every selector is compiled before any request is handled.
C10_CompiledBeforeRequests ==
    pc # "idle" => \A n \in SelectorNames : lazy[n] # Uninit

SelectorsOf(h) ==
    IF h = "isabel" THEN DOMAIN IsabelSelectors
    ELSE IF h = "blog" THEN DOMAIN BlogSelectors
    ELSE IF h = "reportajes" THEN DOMAIN ReportajesSelectors
    ELSE {}

LazyOnce ==
    \A n \in SelectorNames :
        /\ compiles[n] <= 1
        /\ (lazy[n] = Uninit) = (compiles[n] = 0)
        /\ lazy[n] \in {Uninit, SelectorPattern(n)}
        /\ served = 0 => lazy[n] = Uninit

\* C10 as amended: no selector is compiled before the first request; each is
\* compiled by the first request step that uses it, by the handler it belongs
\* to, at most once in the life of the process, and never changes afterwards;
\* every pattern compiles, so no compilation fails.
C10_CompiledOnceOnFirstUse ==
    /\ []LazyOnce
    /\ [][\A n \in SelectorNames :
            /\ lazy[n] # Uninit => lazy'[n] = lazy[n]
            /\ lazy'[n] # lazy[n] => (pc \notin {"idle", "done"} /\ n \in SelectorsOf(handler))]_vars

C10_Witness ==
    /\ served = 2
    /\ handler = "isabel"
    /\ pc = "next"
    /\ document = <<>>
    /\ lazy["SELECTOR_TITLE"] = "h3.blogtitle a"
    /\ compiles["SELECTOR_SELECTION"] = 1

====
